---- MODULE Spec2Model ----
(***************************************************************************)
(* Retrieval layer of rag-python-mongodb: QueryCache (cache_manager.py),   *)
(* CosmosDBVectorStore (vector_store_manager.py) and the retriever of      *)
(* RAGSystem (rag_chain.py).                                               *)
(***************************************************************************)
EXTENDS Integers, Sequences, FiniteSets, TLC

VARIABLES cache, max_size, default_ttl, hits, misses, now, collection, last, threads

vars == <<cache, max_size, default_ttl, hits, misses, now, collection, last, threads>>

(* ------------------------------ bounds -------------------------------- *)

\* last reading of the clock (time.time(), in ticks)
MaxTime == 2
\* get calls between two clear calls
MaxRequests == 2
\* documents in one add_documents call
MaxBatch == 2
\* documents in the collection
MaxDocs == 2
\* calls each concurrent caller makes
MaxOps == 2

\* the max_size values a cache is constructed with
MaxSizes == {0, 1, 2}

\* Python's None
None == "None"

\* query strings are sequences of characters
Queries ==
    { <<"h", "i">>, <<" ", "H", "i", " ">>, <<"h", " ", "i">> }

TopKs == {1, 5}

\* the (query, top_k) pairs the cache is called with
Calls ==
    { <<<<"h", "i">>, 5>>, <<<<" ", "H", "i", " ">>, 5>>, <<<<"h", "i">>, 1>>,
      <<<<"h", " ", "i">>, 5>> }

\* cached payloads (opaque to the cache)
Results == {"r1", "r2"}

\* the ttl argument of put: <<>> when not passed (None), <<t>> for the number t
Ttls == {<<>>, <<0>>, <<1>>}

\* default_ttl the cache is constructed with
DefaultTtls == {2}

(* --------------------------- string helpers --------------------------- *)

\* str.lower() on one character
LowerChar(c) ==
    CASE c = "H" -> "h"
      [] c = "I" -> "i"
      [] OTHER -> c

\* str.lower()
Lower(s) == [i \in 1..Len(s) |-> LowerChar(s[i])]

IsSpace(c) == c \in {" ", "\t", "\n"}

RECURSIVE LStrip(_)
LStrip(s) == IF s # <<>> /\ IsSpace(Head(s)) THEN LStrip(Tail(s)) ELSE s

RECURSIVE RStrip(_)
RStrip(s) ==
    IF s # <<>> /\ IsSpace(s[Len(s)]) THEN RStrip(SubSeq(s, 1, Len(s) - 1)) ELSE s

\* str.strip()
Strip(s) == RStrip(LStrip(s))

(* ------------------------------ QueryCache ---------------------------- *)

\* is_expired with the operands of the subtraction exchanged
is_expired_Swapped(entry, t) == entry.timestamp - t > entry.ttl

\* CacheEntry.is_expired, the clock reading t
is_expired(entry, t) == t - entry.timestamp > entry.ttl

\* _generate_key without the strip()
generate_key_NoStrip(query, top_k) == [query |-> Lower(query), top_k |-> top_k]

\* QueryCache._generate_key: the md5 digest of the JSON text of
\* {"query": query.lower().strip(), "top_k": top_k}; the digest is taken as
\* injective, so the key is the digested payload
generate_key(query, top_k) == [query |-> Strip(Lower(query)), top_k |-> top_k]

\* position of key in the dict (insertion order), 0 when absent
IndexOf(c, key) ==
    IF \E i \in 1..Len(c) : c[i].key = key
    THEN CHOOSE i \in 1..Len(c) : c[i].key = key
    ELSE 0

\* del d[key] for the key at position i
Remove(c, i) == SubSeq(c, 1, i - 1) \o SubSeq(c, i + 1, Len(c))

\* d[key] = entry: an existing key keeps its position, a new one goes last
Store(c, key, entry) ==
    IF IndexOf(c, key) # 0
    THEN [c EXCEPT ![IndexOf(c, key)] = entry]
    ELSE Append(c, entry)

\* min(self.cache.keys(), key=lambda k: self.cache[k].timestamp): the first
\* key, in iteration order, of least timestamp
OldestIndex(c) ==
    CHOOSE i \in 1..Len(c) :
        /\ \A j \in 1..Len(c) : c[i].timestamp <= c[j].timestamp
        /\ \A j \in 1..(i - 1) : c[j].timestamp > c[i].timestamp

\* the capacity test of put with > for >=
IsFull_Late(c, m) == Len(c) > m

\* len(self.cache) >= self.max_size
IsFull(c, m) == Len(c) >= m

\* ttl or self.default_ttl
TtlOrDefault(ttl, dflt) == IF ttl = <<>> \/ ttl[1] = 0 THEN dflt ELSE ttl[1]

\* del self.cache[key], as recorded in the log of a call
Del(key) == [ev |-> "del", key |-> key]

\* the record of a call: its arguments, what it returned, whether it raised,
\* and the deletions and collaborator calls it made, in order
Op(op, args, ret, raised, log) ==
    [op |-> op, args |-> args, ret |-> ret, raised |-> raised, log |-> log]

\* get counting an expired entry as a hit
get_HitOnExpired(query, top_k) ==
    LET key == generate_key(query, top_k)
        i == IndexOf(cache, key)
    IN  /\ hits + misses < MaxRequests
        /\ IF i # 0
           THEN /\ hits' = hits + 1
                /\ cache' = IF is_expired(cache[i], now) THEN Remove(cache, i) ELSE cache
                /\ misses' = misses
                /\ last' = Op("get", <<query, top_k>>,
                              IF is_expired(cache[i], now) THEN None ELSE cache[i].data, FALSE,
                              IF is_expired(cache[i], now) THEN <<Del(key)>> ELSE <<>>)
           ELSE /\ misses' = misses + 1
                /\ UNCHANGED <<cache, hits>>
                /\ last' = Op("get", <<query, top_k>>, None, FALSE, <<>>)
        /\ UNCHANGED <<max_size, default_ttl, now, collection, threads>>

\* get renewing the timestamp of the entry it hits
get_TouchOnHit(query, top_k) ==
    LET key == generate_key(query, top_k)
        i == IndexOf(cache, key)
    IN  /\ hits + misses < MaxRequests
        /\ IF i # 0 /\ ~is_expired(cache[i], now)
           THEN /\ hits' = hits + 1
                /\ cache' = [cache EXCEPT ![i].timestamp = now]
                /\ misses' = misses
                /\ last' = Op("get", <<query, top_k>>, cache[i].data, FALSE, <<>>)
           ELSE /\ cache' = IF i # 0 THEN Remove(cache, i) ELSE cache
                /\ misses' = misses + 1
                /\ hits' = hits
                /\ last' = Op("get", <<query, top_k>>, None, FALSE,
                              IF i # 0 THEN <<Del(key)>> ELSE <<>>)
        /\ UNCHANGED <<max_size, default_ttl, now, collection, threads>>

\* QueryCache.get
get(query, top_k) ==
    LET key == generate_key(query, top_k)
        i == IndexOf(cache, key)
    IN  /\ hits + misses < MaxRequests
        /\ IF i # 0 /\ ~is_expired(cache[i], now)
           THEN /\ hits' = hits + 1
                /\ UNCHANGED <<cache, misses>>
                /\ last' = Op("get", <<query, top_k>>, cache[i].data, FALSE, <<>>)
           ELSE /\ cache' = IF i # 0 THEN Remove(cache, i) ELSE cache
                /\ misses' = misses + 1
                /\ hits' = hits
                /\ last' = Op("get", <<query, top_k>>, None, FALSE,
                              IF i # 0 THEN <<Del(key)>> ELSE <<>>)
        /\ UNCHANGED <<max_size, default_ttl, now, collection, threads>>

\* QueryCache.put
put(query, result, top_k, ttl) ==
    LET key == generate_key(query, top_k)
        full == IsFull(cache, max_size)
        entry == [key |-> key, data |-> result, timestamp |-> now,
                  ttl |-> TtlOrDefault(ttl, default_ttl)]
    IN  /\ IF full /\ cache = <<>>
           THEN \* min() of an empty sequence raises ValueError
                /\ UNCHANGED cache
                /\ last' = Op("put", <<query, top_k>>, None, TRUE, <<>>)
           ELSE LET o == OldestIndex(cache)
                    c1 == IF full THEN Remove(cache, o) ELSE cache
                IN  /\ cache' = Store(c1, key, entry)
                    /\ last' = Op("put", <<query, top_k>>, None, FALSE,
                                  IF full THEN <<Del(cache[o].key)>>
                                  ELSE <<>>)
        /\ UNCHANGED <<max_size, default_ttl, hits, misses, now, collection, threads>>

\* clear that empties the mapping and leaves the counters
clear_KeepCounters ==
    /\ cache' = <<>>
    /\ last' = Op("clear", <<>>, None, FALSE, <<>>)
    /\ UNCHANGED <<max_size, default_ttl, hits, misses, now, collection, threads>>

\* QueryCache.clear
clear ==
    /\ cache' = <<>>
    /\ hits' = 0
    /\ misses' = 0
    /\ last' = Op("clear", <<>>, None, FALSE, <<>>)
    /\ UNCHANGED <<max_size, default_ttl, now, collection, threads>>

\* hit_rate as formatted by f"{hit_rate:.2f}%": hundredths of a percent
HitRate(h, m) == IF h + m > 0 THEN (2 * 10000 * h + (h + m)) \div (2 * (h + m)) ELSE 0

\* QueryCache.get_stats
get_stats ==
    /\ last' = Op("get_stats", <<>>,
                  [hits |-> hits, misses |-> misses, hit_rate |-> HitRate(hits, misses),
                   cache_size |-> Len(cache), max_size |-> max_size],
                  FALSE, <<>>)
    /\ UNCHANGED <<cache, max_size, default_ttl, hits, misses, now, collection, threads>>

(* ------------------------- concurrent callers ------------------------- *)

\* the callers sharing one QueryCache
Threads == {1, 2}

\* what the concurrent callers pass: (query, top_k), result, ttl
ConcCalls == { <<<<"h", "i">>, 5>>, <<<<"h", " ", "i">>, 5>> }

\* a caller between two calls: pc is the statement it is at, key, data, ttl,
\* entry and oldest are the locals of the call (<<>> when unset), tmp the value
\* read by an augmented assignment, ops the calls begun, gets the get calls
\* that returned, raised whether a call of this caller raised
Idle ==
    [pc |-> "idle", key |-> <<>>, data |-> None, ttl |-> 0, entry |-> <<>>, oldest |-> <<>>,
     tmp |-> 0, ops |-> 0, gets |-> 0, raised |-> FALSE]

\* the caller t goes on as rec; nothing but the cache state named changes
Goes(t, rec) ==
    /\ threads' = [threads EXCEPT ![t] = rec]
    /\ UNCHANGED <<max_size, default_ttl, now, collection, last>>

\* the call of caller t returns
Returned(th) ==
    [th EXCEPT !.pc = "idle", !.key = <<>>, !.data = None, !.ttl = 0, !.entry = <<>>,
               !.oldest = <<>>, !.tmp = 0]

\* the call of caller t raises
Raised(th) == [Returned(th) EXCEPT !.raised = TRUE]

\* QueryCache.get, line 37: key = self._generate_key(query, top_k)
get_begin(t, query, top_k) ==
    /\ threads[t].pc = "idle"
    /\ threads[t].ops < MaxOps
    /\ Goes(t, [threads[t] EXCEPT !.pc = "get_in", !.key = <<generate_key(query, top_k)>>,
                                  !.ops = @ + 1])
    /\ UNCHANGED <<cache, hits, misses>>

\* QueryCache.get, line 39: if key in self.cache
get_in(t) ==
    /\ threads[t].pc = "get_in"
    /\ Goes(t, [threads[t] EXCEPT !.pc = IF IndexOf(cache, threads[t].key[1]) # 0
                                         THEN "get_entry" ELSE "get_miss_load"])
    /\ UNCHANGED <<cache, hits, misses>>

\* QueryCache.get, line 40: entry = self.cache[key], KeyError when key is gone
get_entry(t) ==
    /\ threads[t].pc = "get_entry"
    /\ LET i == IndexOf(cache, threads[t].key[1])
       IN  Goes(t, IF i # 0
                   THEN [threads[t] EXCEPT !.pc = "get_expired", !.entry = <<cache[i]>>]
                   ELSE Raised(threads[t]))
    /\ UNCHANGED <<cache, hits, misses>>

\* QueryCache.get, line 41: if not entry.is_expired()
get_expired(t) ==
    /\ threads[t].pc = "get_expired"
    /\ Goes(t, [threads[t] EXCEPT !.pc = IF is_expired(threads[t].entry[1], now)
                                         THEN "get_del" ELSE "get_hit_load"])
    /\ UNCHANGED <<cache, hits, misses>>

\* QueryCache.get, line 42: self.hits += 1, the read of self.hits
get_hit_load(t) ==
    /\ threads[t].pc = "get_hit_load"
    /\ Goes(t, [threads[t] EXCEPT !.pc = "get_hit_store", !.tmp = hits])
    /\ UNCHANGED <<cache, hits, misses>>

\* QueryCache.get, lines 42-44: self.hits += 1, the write, and return entry.data
get_hit_store(t) ==
    /\ threads[t].pc = "get_hit_store"
    /\ hits' = threads[t].tmp + 1
    /\ Goes(t, [Returned(threads[t]) EXCEPT !.gets = @ + 1])
    /\ UNCHANGED <<cache, misses>>

\* QueryCache.get, line 47: del self.cache[key], KeyError when key is gone
get_del(t) ==
    /\ threads[t].pc = "get_del"
    /\ LET i == IndexOf(cache, threads[t].key[1])
       IN  /\ cache' = IF i # 0 THEN Remove(cache, i) ELSE cache
           /\ Goes(t, IF i # 0 THEN [threads[t] EXCEPT !.pc = "get_miss_load"]
                      ELSE Raised(threads[t]))
    /\ UNCHANGED <<hits, misses>>

\* QueryCache.get, line 49: self.misses += 1, the read of self.misses
get_miss_load(t) ==
    /\ threads[t].pc = "get_miss_load"
    /\ Goes(t, [threads[t] EXCEPT !.pc = "get_miss_store", !.tmp = misses])
    /\ UNCHANGED <<cache, hits, misses>>

\* QueryCache.get, lines 49-50: self.misses += 1, the write, and return None
get_miss_store(t) ==
    /\ threads[t].pc = "get_miss_store"
    /\ misses' = threads[t].tmp + 1
    /\ Goes(t, [Returned(threads[t]) EXCEPT !.gets = @ + 1])
    /\ UNCHANGED <<cache, hits>>

\* QueryCache.put, line 54: key = self._generate_key(query, top_k)
put_begin(t, query, result, top_k, ttl) ==
    /\ threads[t].pc = "idle"
    /\ threads[t].ops < MaxOps
    /\ Goes(t, [threads[t] EXCEPT !.pc = "put_len", !.key = <<generate_key(query, top_k)>>,
                                  !.data = result, !.ttl = TtlOrDefault(ttl, default_ttl),
                                  !.ops = @ + 1])
    /\ UNCHANGED <<cache, hits, misses>>

\* QueryCache.put, line 57: if len(self.cache) >= self.max_size
put_len(t) ==
    /\ threads[t].pc = "put_len"
    /\ Goes(t, [threads[t] EXCEPT !.pc = IF IsFull(cache, max_size) THEN "put_min" ELSE "put_store"])
    /\ UNCHANGED <<cache, hits, misses>>

\* QueryCache.put, line 59: oldest_key = min(...), ValueError on an empty dict
\* (the iteration of min is taken as one step)
put_min(t) ==
    /\ threads[t].pc = "put_min"
    /\ Goes(t, IF cache = <<>> THEN Raised(threads[t])
               ELSE [threads[t] EXCEPT !.pc = "put_del", !.oldest = <<cache[OldestIndex(cache)].key>>])
    /\ UNCHANGED <<cache, hits, misses>>

\* QueryCache.put, line 60: del self.cache[oldest_key], KeyError when it is gone
put_del(t) ==
    /\ threads[t].pc = "put_del"
    /\ LET i == IndexOf(cache, threads[t].oldest[1])
       IN  /\ cache' = IF i # 0 THEN Remove(cache, i) ELSE cache
           /\ Goes(t, IF i # 0 THEN [threads[t] EXCEPT !.pc = "put_store"]
                      ELSE Raised(threads[t]))
    /\ UNCHANGED <<hits, misses>>

\* QueryCache.put, lines 62-66: self.cache[key] = CacheEntry(...)
put_store(t) ==
    /\ threads[t].pc = "put_store"
    /\ cache' = Store(cache, threads[t].key[1],
                      [key |-> threads[t].key[1], data |-> threads[t].data, timestamp |-> now,
                       ttl |-> threads[t].ttl])
    /\ Goes(t, Returned(threads[t]))
    /\ UNCHANGED <<hits, misses>>

\* the clock advances while calls are in progress
TickConc ==
    /\ now < MaxTime
    /\ now' = now + 1
    /\ UNCHANGED <<cache, max_size, default_ttl, hits, misses, collection, last, threads>>

(* -------------------------- CosmosDBVectorStore ----------------------- *)

\* Config.top_k_results (TOP_K_RESULTS, default "5")
top_k_results == 5

\* the documents callers ingest: page_content is a string, metadata a
\* mapping given as its set of <<key, value>> pairs
Docs ==
    { [page_content |-> <<"i">>, metadata |-> {<<"source", 1>>}],
      [page_content |-> <<"H", " ", "i">>, metadata |-> {<<"source", 2>>, <<"score", 9>>}],
      [page_content |-> <<"h", "i">>, metadata |-> {}] }

\* the ids argument of add_documents; <<>> is None (and the empty list); the
\* callers, RAGSystem.add_text and RAGSystem.add_documents, pass none
IdLists == {<<>>}

\* the words of a string, split at whitespace
RECURSIVE Words(_)
Words(s) ==
    LET t == LStrip(s)
        n == IF \E i \in 1..Len(t) : IsSpace(t[i])
             THEN (CHOOSE i \in 1..Len(t) :
                      IsSpace(t[i]) /\ \A j \in 1..(i - 1) : ~IsSpace(t[j])) - 1
             ELSE Len(t)
    IN  IF t = <<>> THEN {} ELSE {SubSeq(t, 1, n)} \cup Words(SubSeq(t, n + 1, Len(t)))

\* the texts the store sees
Texts == Queries \cup {d.page_content : d \in Docs}

\* the lower-cased words of each text
WordTable == [t \in Texts |-> Words(Lower(t))]

\* the embedding provider (embed_documents per text, embed_query): a
\* deterministic vector per text, here the set of its lower-cased words
Embed(text) == WordTable[text]

\* searchScore of the service's vector search
VectorScore(qvec, dvec) == Cardinality(qvec \cap dvec)

\* textScore of the service's $text search; a document matches when positive
TextScore(query, content) == Cardinality(WordTable[query] \cap WordTable[content])

\* the first k of docs by descending score, ties in collection order
RECURSIVE TopBy(_, _, _)
TopBy(docs, scores, k) ==
    IF k = 0 \/ docs = <<>> THEN <<>>
    ELSE LET i == CHOOSE i \in 1..Len(docs) :
                      /\ \A j \in 1..Len(docs) : scores[i] >= scores[j]
                      /\ \A j \in 1..(i - 1) : scores[j] < scores[i]
         IN  <<docs[i]>> \o TopBy(Remove(docs, i), Remove(scores, i), k - 1)

\* the subsequence of s at the positions P
RECURSIVE Keep(_, _)
Keep(s, P) ==
    IF s = <<>> THEN <<>>
    ELSE Keep(SubSeq(s, 1, Len(s) - 1), P) \o (IF Len(s) \in P THEN <<s[Len(s)]>> ELSE <<>>)

StoredIds(coll) == {coll[i]._id : i \in 1..Len(coll)}

\* {**metadata, key: value}
WithKey(metadata, key, value) == {p \in metadata : p[1] # key} \cup {<<key, value>>}

\* the record of a collaborator call in the log of an operation
Call(name, pos, ok) == [ev |-> name, pos |-> pos, ok |-> ok]

\* doc_id of add_documents: ids[i] when given, else f"doc_{i}_{hash(page_content)}"
\* (positions count from 1 here; hash is taken as injective)
DocId(documents, ids, i) ==
    IF ids # <<>> /\ i <= Len(ids) THEN ids[i] ELSE <<"doc", i - 1, documents[i].page_content>>

\* docs_to_insert of add_documents
DocsToInsert(documents, ids) ==
    [i \in 1..Len(documents) |->
        [_id |-> DocId(documents, ids, i),
         content |-> documents[i].page_content,
         metadata |-> documents[i].metadata,
         embedding |-> Embed(documents[i].page_content)]]

\* a one-by-one loop that stops at the first insert_one that fails
RECURSIVE InsertEach_StopAtFailure(_, _, _, _)
InsertEach_StopAtFailure(coll, docs, i, oneOk) ==
    IF i > Len(docs) THEN [coll |-> coll, log |-> <<>>]
    ELSE LET ok == i \in oneOk /\ docs[i]._id \notin StoredIds(coll)
             rest == IF ok THEN InsertEach_StopAtFailure(Append(coll, docs[i]), docs, i + 1, oneOk)
                     ELSE [coll |-> coll, log |-> <<>>]
         IN  [coll |-> rest.coll, log |-> <<Call("insert_one", i, ok)>> \o rest.log]

\* the one-by-one loop of add_documents from position i on: insert_one(doc)
\* succeeds for a position of oneOk whose _id is not stored yet
RECURSIVE InsertEach(_, _, _, _)
InsertEach(coll, docs, i, oneOk) ==
    IF i > Len(docs) THEN [coll |-> coll, log |-> <<>>]
    ELSE LET ok == i \in oneOk /\ docs[i]._id \notin StoredIds(coll)
             rest == InsertEach(IF ok THEN Append(coll, docs[i]) ELSE coll, docs, i + 1, oneOk)
         IN  [coll |-> rest.coll, log |-> <<Call("insert_one", i, ok)>> \o rest.log]

\* the positions insert_many(docs, ordered=False) can persist: the _id is
\* neither stored nor that of an earlier position of the batch
Insertable(coll, docs) ==
    {i \in 1..Len(docs) :
        /\ docs[i]._id \notin StoredIds(coll)
        /\ \A j \in 1..(i - 1) : docs[j]._id # docs[i]._id}

\* add_documents that inserts one by one after insert_many, failed or not
add_documents_AlwaysEach(documents, ids, embOk, bulkOk, bulkDone, oneOk) ==
    LET docs == DocsToInsert(documents, ids)
        n == Len(documents)
        inserted_ids == [i \in 1..n |-> docs[i]._id]
        each == InsertEach(collection \o Keep(docs, bulkDone), docs, 1, oneOk)
    IN  /\ Len(collection) + n <= MaxDocs
        /\ bulkDone \subseteq Insertable(collection, docs)
        /\ bulkOk => bulkDone = 1..n
        /\ IF n = 0
           THEN /\ last' = Op("add_documents", <<documents, ids>>, <<>>, FALSE, <<>>)
                /\ UNCHANGED collection
           ELSE IF ~embOk
           THEN /\ last' = Op("add_documents", <<documents, ids>>, None, TRUE,
                              <<Call("embed_documents", 0, FALSE)>>)
                /\ UNCHANGED collection
           ELSE /\ last' = Op("add_documents", <<documents, ids>>, inserted_ids, FALSE,
                              <<Call("embed_documents", 0, TRUE), Call("insert_many", 0, bulkOk)>>
                              \o each.log)
                /\ collection' = each.coll
        /\ UNCHANGED <<cache, max_size, default_ttl, hits, misses, now, threads>>

\* add_documents that goes on to insert when embed_documents failed
add_documents_SwallowEmbed(documents, ids, embOk, bulkOk, bulkDone, oneOk) ==
    LET docs == DocsToInsert(documents, ids)
        n == Len(documents)
        inserted_ids == [i \in 1..n |-> docs[i]._id]
        afterBulk == collection \o Keep(docs, bulkDone)
        each == InsertEach(afterBulk, docs, 1, oneOk)
    IN  /\ Len(collection) + n <= MaxDocs
        /\ bulkDone \subseteq Insertable(collection, docs)
        /\ bulkOk => bulkDone = 1..n
        /\ IF n = 0
           THEN /\ last' = Op("add_documents", <<documents, ids>>, <<>>, FALSE, <<>>)
                /\ UNCHANGED collection
           ELSE IF bulkOk
           THEN /\ last' = Op("add_documents", <<documents, ids>>, inserted_ids, FALSE,
                              <<Call("embed_documents", 0, embOk), Call("insert_many", 0, TRUE)>>)
                /\ collection' = afterBulk
           ELSE /\ last' = Op("add_documents", <<documents, ids>>, inserted_ids, FALSE,
                              <<Call("embed_documents", 0, embOk), Call("insert_many", 0, FALSE)>>
                              \o each.log)
                /\ collection' = each.coll
        /\ UNCHANGED <<cache, max_size, default_ttl, hits, misses, now, threads>>

\* CosmosDBVectorStore.add_documents; embOk: embed_documents returns;
\* bulkOk: insert_many returns, else it raises having persisted the positions
\* bulkDone; oneOk: the positions whose insert_one does not fail by itself
add_documents(documents, ids, embOk, bulkOk, bulkDone, oneOk) ==
    LET docs == DocsToInsert(documents, ids)
        n == Len(documents)
        inserted_ids == [i \in 1..n |-> docs[i]._id]
        afterBulk == collection \o Keep(docs, bulkDone)
        each == InsertEach(afterBulk, docs, 1, oneOk)
    IN  /\ Len(collection) + n <= MaxDocs
        /\ bulkDone \subseteq Insertable(collection, docs)
        /\ bulkOk => bulkDone = 1..n
        /\ IF n = 0
           THEN /\ last' = Op("add_documents", <<documents, ids>>, <<>>, FALSE, <<>>)
                /\ UNCHANGED collection
           ELSE IF ~embOk
           THEN /\ last' = Op("add_documents", <<documents, ids>>, None, TRUE,
                              <<Call("embed_documents", 0, FALSE)>>)
                /\ UNCHANGED collection
           ELSE IF bulkOk
           THEN /\ last' = Op("add_documents", <<documents, ids>>, inserted_ids, FALSE,
                              <<Call("embed_documents", 0, TRUE), Call("insert_many", 0, TRUE)>>)
                /\ collection' = afterBulk
           ELSE /\ last' = Op("add_documents", <<documents, ids>>, inserted_ids, FALSE,
                              <<Call("embed_documents", 0, TRUE), Call("insert_many", 0, FALSE)>>
                              \o each.log)
                /\ collection' = each.coll
        /\ UNCHANGED <<cache, max_size, default_ttl, hits, misses, now, threads>>

\* the Documents of _fallback_search when find(...).sort(...).limit(k) returns
FallbackDocs(coll, query, k) ==
    LET match == {i \in 1..Len(coll) : TextScore(query, coll[i].content) > 0}
        found == Keep(coll, match)
        top == TopBy(found, [i \in 1..Len(found) |-> TextScore(query, found[i].content)], k)
    IN  [i \in 1..Len(top) |-> [page_content |-> top[i].content, metadata |-> top[i].metadata]]

\* the Documents of similarity_search when aggregate(pipeline) returns
VectorDocs(coll, query, k) ==
    LET scores == [i \in 1..Len(coll) |-> VectorScore(Embed(query), coll[i].embedding)]
        top == TopBy(coll, scores, k)
    IN  [i \in 1..Len(top) |->
            [page_content |-> top[i].content,
             metadata |-> WithKey(top[i].metadata, "score",
                                  VectorScore(Embed(query), top[i].embedding))]]

\* _fallback_search letting the failure of find out
fallback_search_Raises(coll, query, k, findOk) ==
    [ret |-> IF findOk THEN FallbackDocs(coll, query, k) ELSE None,
     raised |-> ~findOk,
     log |-> <<Call("find", 0, findOk)>>]

\* CosmosDBVectorStore._fallback_search: what it returns and the calls it makes;
\* findOk: the find query returns
fallback_search(coll, query, k, findOk) ==
    [ret |-> IF findOk THEN FallbackDocs(coll, query, k) ELSE <<>>,
     raised |-> FALSE,
     log |-> <<Call("find", 0, findOk)>>]

\* similarity_search answering a failed aggregate with no documents
similarity_search_NoFallback(coll, query, k, embOk, aggOk, findOk) ==
    IF ~embOk
    THEN [ret |-> None, raised |-> TRUE, log |-> <<Call("embed_query", 0, FALSE)>>]
    ELSE [ret |-> IF aggOk THEN VectorDocs(coll, query, k) ELSE <<>>, raised |-> FALSE,
          log |-> <<Call("embed_query", 0, TRUE), Call("aggregate", 0, aggOk)>>]

\* CosmosDBVectorStore.similarity_search: what it returns, whether it raises and
\* the calls it makes; embOk: embed_query returns; aggOk: aggregate returns
similarity_search(coll, query, k, embOk, aggOk, findOk) ==
    IF ~embOk
    THEN [ret |-> None, raised |-> TRUE, log |-> <<Call("embed_query", 0, FALSE)>>]
    ELSE IF aggOk
    THEN [ret |-> VectorDocs(coll, query, k), raised |-> FALSE,
          log |-> <<Call("embed_query", 0, TRUE), Call("aggregate", 0, TRUE)>>]
    ELSE LET fb == fallback_search(coll, query, k, findOk)
         IN  [ret |-> fb.ret, raised |-> fb.raised,
              log |-> <<Call("embed_query", 0, TRUE), Call("aggregate", 0, FALSE)>> \o fb.log]

\* a call of vector_store.similarity_search(query, k)
Search(query, k, embOk, aggOk, findOk) ==
    LET r == similarity_search(collection, query, k, embOk, aggOk, findOk)
    IN  /\ last' = Op("similarity_search", <<query, k>>, r.ret, r.raised, r.log)
        /\ UNCHANGED <<cache, max_size, default_ttl, hits, misses, now, collection, threads>>

\* a call of vector_store._fallback_search(query, k)
Fallback(query, k, findOk) ==
    LET r == fallback_search(collection, query, k, findOk)
    IN  /\ last' = Op("fallback_search", <<query, k>>, r.ret, r.raised, r.log)
        /\ UNCHANGED <<cache, max_size, default_ttl, hits, misses, now, collection, threads>>

\* CosmosDBVectorStore.delete_all; delOk: delete_many returns, else it raises
\* with the positions kept still stored
delete_all(delOk, kept) ==
    /\ delOk => kept = {}
    /\ kept \subseteq 1..Len(collection)
    /\ collection' = Keep(collection, kept)
    /\ last' = Op("delete_all", <<>>, None, FALSE, <<Call("delete_many", 0, delOk)>>)
    /\ UNCHANGED <<cache, max_size, default_ttl, hits, misses, now, threads>>

(* ------------------------------- RAGSystem ---------------------------- *)

\* CustomRetriever.get_relevant_documents of RAGSystem._create_retriever
get_relevant_documents(query, embOk, aggOk, findOk) ==
    LET r == similarity_search(collection, query, top_k_results, embOk, aggOk, findOk)
    IN  /\ last' = Op("get_relevant_documents", <<query, top_k_results>>, r.ret, r.raised, r.log)
        /\ UNCHANGED <<cache, max_size, default_ttl, hits, misses, now, collection, threads>>

\* RAGSystem.clear_database
clear_database(delOk, kept) ==
    /\ delOk => kept = {}
    /\ kept \subseteq 1..Len(collection)
    /\ collection' = Keep(collection, kept)
    /\ last' = Op("clear_database", <<>>, None, FALSE, <<Call("delete_many", 0, delOk)>>)
    /\ UNCHANGED <<cache, max_size, default_ttl, hits, misses, now, threads>>

\* the lists of at most n documents
RECURSIVE Batches(_)
Batches(n) ==
    IF n = 0 THEN {<<>>}
    ELSE Batches(n - 1) \cup {Append(b, d) : b \in {c \in Batches(n - 1) : Len(c) = n - 1}, d \in Docs}

\* the clock advances between calls
Tick ==
    /\ now < MaxTime
    /\ now' = now + 1
    /\ UNCHANGED <<cache, max_size, default_ttl, hits, misses, collection, last, threads>>

\* QueryCache.__init__, and an empty collection
Init ==
    /\ cache = <<>>
    /\ max_size \in MaxSizes
    /\ default_ttl \in DefaultTtls
    /\ hits = 0
    /\ misses = 0
    /\ now = 0
    /\ collection = <<>>
    /\ last = Op("init", <<>>, None, FALSE, <<>>)
    /\ threads = [t \in Threads |-> Idle]

NextCache ==
    \/ \E c \in Calls : get(c[1], c[2])
    \/ \E c \in Calls, r \in Results, t \in Ttls : put(c[1], r, c[2], t)
    \/ clear
    \/ get_stats
    \/ Tick

SpecCache == Init /\ [][NextCache]_vars

\* the batches add_documents is called with
AllBatches == Batches(MaxBatch)

\* what the collaborators of add_documents do on a batch of n documents
AddOutcomes(n) ==
    {[embOk |-> FALSE, bulkOk |-> FALSE, bulkDone |-> {}, oneOk |-> {}],
     [embOk |-> TRUE, bulkOk |-> TRUE, bulkDone |-> 1..n, oneOk |-> {}]}
    \cup {[embOk |-> TRUE, bulkOk |-> FALSE, bulkDone |-> bd, oneOk |-> oo] :
             bd \in SUBSET (1..n), oo \in SUBSET (1..n)}

\* what the collaborators of similarity_search do: <<embOk, aggOk, findOk>>
SearchOutcomes ==
    {<<FALSE, FALSE, FALSE>>, <<TRUE, TRUE, FALSE>>, <<TRUE, FALSE, TRUE>>, <<TRUE, FALSE, FALSE>>}

\* what delete_many does: <<delOk, kept>>
DeleteOutcomes == {<<TRUE, {}>>} \cup {<<FALSE, kept>> : kept \in SUBSET (1..Len(collection))}

InitStore == Init /\ max_size = 2

NextStore ==
    \/ \E b \in AllBatches, ids \in IdLists : \E o \in AddOutcomes(Len(b)) :
            add_documents(b, ids, o.embOk, o.bulkOk, o.bulkDone, o.oneOk)
    \/ \E q \in Queries, k \in TopKs, o \in SearchOutcomes : Search(q, k, o[1], o[2], o[3])
    \/ \E q \in Queries, k \in TopKs, findOk \in BOOLEAN : Fallback(q, k, findOk)
    \/ \E o \in DeleteOutcomes : delete_all(o[1], o[2])
    \/ \E q \in Queries, o \in SearchOutcomes : get_relevant_documents(q, o[1], o[2], o[3])
    \/ \E o \in DeleteOutcomes : clear_database(o[1], o[2])

SpecStore == InitStore /\ [][NextStore]_vars

InitConc == Init /\ max_size = 1

\* the statements of concurrent get and put calls on one cache, interleaved
NextConc ==
    \/ \E t \in Threads, c \in ConcCalls : get_begin(t, c[1], c[2])
    \/ \E t \in Threads : get_in(t)
    \/ \E t \in Threads : get_entry(t)
    \/ \E t \in Threads : get_expired(t)
    \/ \E t \in Threads : get_hit_load(t)
    \/ \E t \in Threads : get_hit_store(t)
    \/ \E t \in Threads : get_del(t)
    \/ \E t \in Threads : get_miss_load(t)
    \/ \E t \in Threads : get_miss_store(t)
    \/ \E t \in Threads, c \in ConcCalls : put_begin(t, c[1], "r1", c[2], <<1>>)
    \/ \E t \in Threads : put_len(t)
    \/ \E t \in Threads : put_min(t)
    \/ \E t \in Threads : put_del(t)
    \/ \E t \in Threads : put_store(t)
    \/ TickConc

SpecConc == InitConc /\ [][NextConc]_vars

\* the cache beside the store: results are cached, documents are ingested,
\* retrieved and cleared
NextReset ==
    \/ \E c \in Calls, r \in Results, t \in Ttls : put(c[1], r, c[2], t)
    \/ \E b \in AllBatches, ids \in IdLists : \E o \in AddOutcomes(Len(b)) :
            add_documents(b, ids, o.embOk, o.bulkOk, o.bulkDone, o.oneOk)
    \/ \E q \in Queries, o \in SearchOutcomes : get_relevant_documents(q, o[1], o[2], o[3])
    \/ \E o \in DeleteOutcomes : clear_database(o[1], o[2])

InitReset == Init /\ max_size = 1

SpecReset == InitReset /\ [][NextReset]_vars

(* ------------------------------- claims ------------------------------- *)

\* the log holds a call of the collaborator name that ended ok
LoggedIn(log, name, ok) == \E i \in 1..Len(log) : log[i].ev = name /\ log[i].ok = ok

\* the last call made the collaborator call name, which ended ok
Logged(name, ok) == LoggedIn(last.log, name, ok)

\* this step is a call of the operation op (the clock steps between calls)
Called(op) == last'.op = op /\ now' = now

\* C1: a retrieve looks the cache up first; on a hit it counts the hit, returns
\* the cached value and makes no call to the store; on a miss it counts the
\* miss, searches the store and leaves the result in the cache
C1_RetrieveThroughCache ==
    [][Called("get_relevant_documents") =>
         LET key == generate_key(last'.args[1], last'.args[2])
             i == IndexOf(cache, key)
         IN  IF i # 0 /\ now - cache[i].timestamp <= cache[i].ttl
             THEN /\ hits' = hits + 1
                  /\ misses' = misses
                  /\ last'.log = <<>>
                  /\ ~last'.raised
                  /\ last'.ret = cache[i].data
             ELSE /\ misses' = misses + 1
                  /\ hits' = hits
                  /\ last'.log # <<>>
                  /\ ~last'.raised =>
                       /\ IndexOf(cache', key) # 0
                       /\ cache'[IndexOf(cache', key)].data = last'.ret]_vars

\* C2: the cache never holds more than max_size entries
C2_CapacityInvariant == Len(cache) <= max_size

\* C2: a put into a full cache of capacity 2 evicted an entry and left it full
C2_Witness ==
    /\ last.op = "put"
    /\ last.log # <<>>
    /\ max_size = 2
    /\ Len(cache) = max_size

\* C3: a put into a cache holding at least max_size entries deletes exactly one
\* entry, one of least timestamp among those present; a put into a cache
\* holding fewer deletes nothing
C3_EvictionRule ==
    [][Called("put") =>
         IF Len(cache) >= max_size
         THEN /\ Len(last'.log) = 1
              /\ \E i \in 1..Len(cache) :
                    /\ cache[i].key = last'.log[1].key
                    /\ \A j \in 1..Len(cache) : cache[i].timestamp <= cache[j].timestamp
         ELSE /\ last'.log = <<>>
              /\ Len(cache') >= Len(cache)]_vars

\* C4: a get for a key whose entry has now - timestamp > ttl returns None and
\* deletes the entry, so the cache holds one entry less
C4_LazyExpiry ==
    [][Called("get") =>
         \A i \in 1..Len(cache) :
            (/\ cache[i].key = generate_key(last'.args[1], last'.args[2])
             /\ now - cache[i].timestamp > cache[i].ttl)
            => /\ last'.ret = None
               /\ Len(cache') = Len(cache) - 1
               /\ \A j \in 1..Len(cache') : cache'[j].key # cache[i].key]_vars

\* C4: a get found its entry expired, deleted it and returned None
C4_Witness ==
    /\ last.op = "get"
    /\ last.ret = None
    /\ last.log # <<>>
    /\ misses > 0

\* C5: every get adds one to exactly one of hits and misses; to hits, returning
\* the stored value, exactly when the key is present and not expired
C5_HitMissAccounting ==
    [][Called("get") =>
         LET valid == {i \in 1..Len(cache) :
                         /\ cache[i].key = generate_key(last'.args[1], last'.args[2])
                         /\ now - cache[i].timestamp <= cache[i].ttl}
         IN  /\ \/ hits' = hits + 1 /\ misses' = misses
                \/ hits' = hits /\ misses' = misses + 1
             /\ hits' = hits + 1 <=> valid # {}
             /\ \A i \in valid : last'.ret = cache[i].data
             /\ valid = {} => last'.ret = None]_vars

\* C5: put(q, k, v); get(q, k); get(q, k) on a fresh cache: hits = 2, misses = 0
C5_Witness ==
    /\ last.op = "get"
    /\ last.ret \in Results
    /\ hits = 2
    /\ misses = 0

\* the query of the claim's normal form: trimmed of the whitespace at its ends
Trimmed(q) ==
    LET inner == {i \in 1..Len(q) : q[i] # " "}
    IN  IF inner = {} THEN <<>>
        ELSE SubSeq(q, CHOOSE i \in inner : \A j \in inner : i <= j,
                       CHOOSE i \in inner : \A j \in inner : i >= j)

\* the query of the claim's normal form: case-folded
Folded(q) == [i \in 1..Len(q) |-> IF q[i] = "H" THEN "h" ELSE IF q[i] = "I" THEN "i" ELSE q[i]]

\* C6: a get(q1, k1) made when the cache holds only the entry of the last
\* put(q2, k2, v), not expired, hits that entry exactly when k1 = k2 and q1, q2
\* are equal after case-folding and trimming
C6_KeyNormalization ==
    [][(/\ Called("get")
        /\ last.op = "put"
        /\ ~last.raised
        /\ Len(cache) = 1
        /\ now - cache[1].timestamp <= cache[1].ttl)
       => ((hits' = hits + 1 /\ last'.ret = cache[1].data)
             <=> (/\ last'.args[2] = last.args[2]
                  /\ Folded(Trimmed(last'.args[1])) = Folded(Trimmed(last.args[1]))))]_vars

\* C6: get(" Hi ", 5) hit the only entry of the cache, put under "hi"
C6_Witness ==
    /\ last.op = "get"
    /\ last.args = << <<" ", "H", "i", " ">>, 5 >>
    /\ last.ret \in Results
    /\ Len(cache) = 1
    /\ cache[1].key.query = <<"h", "i">>

\* C7: the ids add_documents returns are exactly the ids of the records this
\* call persisted
C7_ReturnedIdsArePersisted ==
    [][(Called("add_documents") /\ ~last'.raised)
       => /\ {last'.ret[i] : i \in 1..Len(last'.ret)}
               = StoredIds(collection') \ StoredIds(collection)
          /\ Len(last'.ret) = Len(collection') - Len(collection)]_vars

\* C8: a similarity_search whose aggregate call fails raises nothing and
\* returns what _fallback_search returns on the same collection
C8_SearchFallback ==
    (last.op = "similarity_search" /\ Logged("aggregate", FALSE))
    => /\ ~last.raised
       /\ \E findOk \in BOOLEAN :
             /\ Logged("find", findOk)
             /\ last.ret = IF findOk
                           THEN FallbackDocs(collection, last.args[1], last.args[2])
                           ELSE <<>>

\* C8: a similarity_search fell back and returned the documents the text
\* search matched
C8_Witness ==
    /\ last.op = "similarity_search"
    /\ Logged("aggregate", FALSE)
    /\ Logged("find", TRUE)
    /\ ~last.raised
    /\ last.ret # <<>>

\* C9: a similarity_search whose embed_query call fails raises nothing and
\* takes the fallback search
C9_EmbedFailureFallsBack ==
    (last.op = "similarity_search" /\ Logged("embed_query", FALSE))
    => (~last.raised /\ (Logged("find", TRUE) \/ Logged("find", FALSE)))

\* C10: similarity_search returns an empty sequence and raises nothing when
\* aggregate and find both fail; _fallback_search never raises and returns an
\* empty sequence when find fails
C10_EmptyResult ==
    /\ (last.op = "similarity_search" /\ Logged("aggregate", FALSE) /\ Logged("find", FALSE))
       => (~last.raised /\ last.ret = <<>>)
    /\ (last.op = "fallback_search")
       => (~last.raised /\ (Logged("find", FALSE) => last.ret = <<>>))

\* C10: a similarity_search on a stored document failed in both tiers and
\* returned the empty sequence
C10_Witness ==
    /\ last.op = "similarity_search"
    /\ Logged("aggregate", FALSE)
    /\ Logged("find", FALSE)
    /\ ~last.raised
    /\ last.ret = <<>>
    /\ collection # <<>>

\* C11: after a clear_database whose delete_many returned, no document is
\* stored and no result is cached
C11_ResetClearsBothLayers ==
    (last.op = "clear_database" /\ Logged("delete_many", TRUE))
    => (collection = <<>> /\ cache = <<>>)

\* C12: under every interleaving of concurrent get and put calls the cache
\* never holds more than max_size entries and no call raises
C12_ConcurrentSizeInvariant ==
    /\ Len(cache) <= max_size
    /\ \A t \in Threads : ~threads[t].raised

\* C13: once every concurrent call has returned, hits + misses is the number
\* of get calls that returned
C13_ConcurrentCountersExact ==
    (\A t \in Threads : threads[t].pc = "idle")
    => hits + misses = threads[1].gets + threads[2].gets

\* C14: no call of get, put, clear or get_stats raises, whatever max_size the
\* cache was constructed with
C14_NoCacheOperationFails ==
    last.op \in {"get", "put", "clear", "get_stats"} => ~last.raised

\* C19: get, put and get_stats never lower hits or misses; clear sets both to
\* zero and empties the cache, and is the only call that lowers a counter
C19_CountersMonotonic ==
    [][/\ (Called("get") \/ Called("put") \/ Called("get_stats"))
                => (hits' >= hits /\ misses' >= misses)
       /\ Called("clear") => (hits' = 0 /\ misses' = 0 /\ cache' = <<>>)
       /\ (hits' < hits \/ misses' < misses) => Called("clear")]_vars

\* C19: a clear has just emptied the cache and zeroed both counters
C19_Witness ==
    last.op = "clear" /\ hits = 0 /\ misses = 0 /\ cache = <<>>

\* C20: the entry a put stores carries the ttl the caller passed, zero
\* included, and default_ttl only when the caller passed none
C20_EntryCarriesPassedTtl ==
    [][\A c \in Calls, r \in Results, t \in Ttls :
          (Called("put") /\ ~last'.raised /\ put(c[1], r, c[2], t))
          => LET i == IndexOf(cache', generate_key(c[1], c[2]))
             IN  cache'[i].ttl = IF t = <<>> THEN default_ttl ELSE t[1]]_vars

\* C15: in add_documents, embed_documents returns before any insert is
\* attempted, insert_many is attempted before any insert_one, and insert_one is
\* attempted only after insert_many failed
C15_InsertOrdering ==
    last.op = "add_documents" =>
        \A i \in 1..Len(last.log) :
            /\ last.log[i].ev = "embed_documents" => i = 1
            /\ last.log[i].ev = "insert_many"
                  => (i = 2 /\ last.log[1] = Call("embed_documents", 0, TRUE))
            /\ last.log[i].ev = "insert_one"
                  => (i > 2 /\ last.log[2] = Call("insert_many", 0, FALSE))

\* C15: an add_documents whose insert_many failed went on to insert_one
C15_Witness ==
    /\ last.op = "add_documents"
    /\ Len(last.log) >= 3
    /\ last.log[2] = Call("insert_many", 0, FALSE)
    /\ last.log[3].ev = "insert_one"

\* C16: an add_documents whose embed_documents fails raises, attempts no
\* insert_many and no insert_one, and leaves the collection as it was
C16_EmbedFailureIsHard ==
    [][(Called("add_documents") /\ LoggedIn(last'.log, "embed_documents", FALSE))
       => /\ last'.raised
          /\ last'.log = <<Call("embed_documents", 0, FALSE)>>
          /\ collection' = collection]_vars

\* C16: an add_documents on a collection holding documents raised at
\* embed_documents
C16_Witness ==
    /\ last.op = "add_documents"
    /\ last.raised
    /\ Logged("embed_documents", FALSE)
    /\ collection # <<>>

\* C17: after a failed insert_many, add_documents attempts insert_one for
\* every document of the batch, in order, whatever fails, and does not raise
C17_PerItemFallbackCompletes ==
    (/\ last.op = "add_documents"
     /\ LoggedIn(last.log, "insert_many", FALSE))
    => LET n == Len(last.args[1])
       IN  /\ ~last.raised
           /\ Len(last.log) = 2 + n
           /\ \A i \in 1..n : last.log[2 + i].ev = "insert_one" /\ last.log[2 + i].pos = i

\* C17: the insert_one of the first document failed and the second document
\* was attempted all the same
C17_Witness ==
    /\ last.op = "add_documents"
    /\ Len(last.log) = 4
    /\ last.log[3] = Call("insert_one", 1, FALSE)
    /\ last.log[4].ev = "insert_one"

\* C18: a result of similarity_search carries a score in its metadata exactly
\* when aggregate produced it; no result of the text search carries one
C18_ScoreMarksVectorPath ==
    (last.op = "similarity_search" /\ ~last.raised)
    => \A i \in 1..Len(last.ret) :
          (\E p \in last.ret[i].metadata : p[1] = "score") <=> Logged("aggregate", TRUE)

C22_PutExistingKeepsOthers ==
    [][(Called("put") /\ ~last'.raised) =>
         LET key == generate_key(last'.args[1], last'.args[2])
         IN  IndexOf(cache, key) # 0
             => \A j \in 1..Len(cache) :
                   cache[j].key # key => \E m \in 1..Len(cache') : cache'[m] = cache[j]]_vars

\* C23: when put evicts an entry that is not expired, no entry of the cache is
\* expired
C23_EvictionSparesValid ==
    [][(Called("put") /\ last'.log # <<>>) =>
         LET o == IndexOf(cache, last'.log[1].key)
         IN  ~is_expired(cache[o], now)
             => \A j \in 1..Len(cache) : ~is_expired(cache[j], now)]_vars

====
